---- MODULE Spec2Model ----
(***************************************************************************)
(* Model of scripts/setup_python_project.py: the project scaffolding       *)
(* script (get_project_name, setup_virtual_environment,                    *)
(* create_project_structure, get_github_username, setup_git, main).        *)
(*                                                                         *)
(* Strings the script computes with are sequences of one-character         *)
(* strings.  Every external command is a step with an outcome:             *)
(*   "ok"        exit status 0                                             *)
(*   "nonzero"   non-zero exit status: check=True raises CalledProcessError*)
(*   "notfound"  no such executable: subprocess.run raises                 *)
(*               FileNotFoundError (an OSError, not a CalledProcessError)  *)
(* The history variable trace records, in order, the components entered,   *)
(* the commands run, the files written and the messages printed.           *)
(***************************************************************************)
EXTENDS Integers, Sequences, FiniteSets

(* ------------------------------ bounds -------------------------------- *)

\* longest directory name drawn for a direct call of get_project_name
MaxLen == 3
\* most command-line arguments after the program name
MaxArgs == 3

(* --------------------------- string helpers --------------------------- *)

UpperLetters == <<"A","B","C","D","E","F","G","H","I","J","K","L","M",
                  "N","O","P","Q","R","S","T","U","V","W","X","Y","Z">>
LowerLetters == <<"a","b","c","d","e","f","g","h","i","j","k","l","m",
                  "n","o","p","q","r","s","t","u","v","w","x","y","z">>
Digits == {"0","1","2","3","4","5","6","7","8","9"}

\* the characters \s matches (ASCII part)
Whitespace == {" ", "\t", "\n", "\r", "\f"}

\* the character class [\s_]
SepClass == Whitespace \cup {"_"}

Range(s) == {s[i] : i \in 1..Len(s)}

\* str.lower() on one character (ASCII letters)
LowerChar(c) ==
    IF \E i \in 1..Len(UpperLetters) : UpperLetters[i] = c
    THEN LowerLetters[CHOOSE i \in 1..Len(UpperLetters) : UpperLetters[i] = c]
    ELSE c

\* str.lower()
Lower(s) == [i \in 1..Len(s) |-> LowerChar(s[i])]

\* the rest of s after its leading run of [\s_] characters
RECURSIVE SkipSep(_)
SkipSep(s) ==
    IF s # <<>> /\ Head(s) \in SepClass THEN SkipSep(Tail(s)) ELSE s

\* a plausible slip: the class without the +, every character replaced alone
RECURSIVE ReSubEach(_)
ReSubEach(s) ==
    IF s = <<>> THEN <<>>
    ELSE IF Head(s) \in SepClass THEN <<"-">> \o ReSubEach(Tail(s))
    ELSE <<Head(s)>> \o ReSubEach(Tail(s))

\* re.sub(r'[\s_]+', '-', s): leftmost maximal runs replaced by one hyphen
RECURSIVE ReSub(_)
ReSub(s) ==
    IF s = <<>> THEN <<>>
    ELSE IF Head(s) \in SepClass THEN <<"-">> \o ReSub(SkipSep(Tail(s)))
    ELSE <<Head(s)>> \o ReSub(Tail(s))

\* str.replace('-', '_')
ReplaceHyphens(s) == [i \in 1..Len(s) |-> IF s[i] = "-" THEN "_" ELSE s[i]]

\* str.strip(): leading and trailing whitespace removed
RECURSIVE LStrip(_)
LStrip(s) ==
    IF s # <<>> /\ Head(s) \in Whitespace THEN LStrip(Tail(s)) ELSE s

RECURSIVE RStrip(_)
RStrip(s) ==
    IF s # <<>> /\ s[Len(s)] \in Whitespace
    THEN RStrip(SubSeq(s, 1, Len(s) - 1)) ELSE s

Strip(s) == RStrip(LStrip(s))

\* get_project_name with os.path.basename(os.getcwd()) passed as folder
get_project_name(prefix_, folder) == prefix_ \o <<"-">> \o ReSub(Lower(folder))

(* ------------------------------- inputs ------------------------------- *)

FlagNoGithub == <<"-","-","n","o","-","g","i","t","h","u","b">>
FlagPublic == <<"-","-","p","u","b","l","i","c">>
ProgName == <<".","/","s","e","t","u","p">>
Acme == <<"a","c","m","e">>

\* the words a command line is made of
ArgTokens == {FlagNoGithub, FlagPublic, Acme}

\* sys.argv: the program name, then at most MaxArgs words
ArgLists == {<<ProgName>> \o l : l \in UNION {[1..n -> ArgTokens] : n \in 0..MaxArgs}}

\* directory names the script is run from
SampleFolders == { <<"M","y"," ","P","r","o","j","e","c","t">>,
                   <<"m","y","_","p","r","o","j","e","c","t">>,
                   <<"a","l","r","e","a","d","y","-","h","y","p","h","e","n","a","t","e","d">> }

\* characters of the directory names drawn for get_project_name
Alphabet == {"a", "B", "1", " ", "\t", "_", "-", "."}
Folders == UNION {[1..n -> Alphabet] : n \in 0..MaxLen} \cup SampleFolders
Prefixes == {<<>>, <<"x">>, Acme}

\* values setup_git can be handed as visibility
Visibilities == {"public", "private", "internal"}

\* what gh api user --jq .login can print on exit status 0
Stdouts == {<<>>, <<"\n">>, <<"o","c","t","o","\n">>}

\* the placeholder identity "yourusername"
Placeholder == <<"y","o","u","r","u","s","e","r","n","a","m","e">>

(* -------------------------------- state ------------------------------- *)

VARIABLES
    entry,            \* what is run: the script, or one function of the module
    pc,               \* position of the run
    argv,             \* sys.argv
    cwd,              \* os.path.basename(os.getcwd())
    gh_present,       \* is there a gh executable on the host
    prefix,
    project_name,
    use_github,
    visibility,
    github_username,
    trace,            \* history: calls, commands, writes, prints, in order
    exc,              \* the exception that ended the run, or "none"
    exitcode          \* process exit status, -1 while there is none

vars == <<entry, pc, argv, cwd, gh_present, prefix, project_name, use_github,
          visibility, github_username, trace, exc, exitcode>>

host == <<entry, argv, cwd, gh_present>>

Ev(op, what, arg, res, text) ==
    [op |-> op, what |-> what, arg |-> arg, res |-> res, text |-> text]
Call(f) == Ev("call", f, "", "", <<>>)
Exec(cmd, arg, res) == Ev("exec", cmd, arg, res, <<>>)
WriteFile(name, text) == Ev("write", name, "", "", text)
Say(msg, text) == Ev("print", msg, "", "", text)

\* the first n of the filesystem operations ops, in order
Written(ops, n) == SubSeq(ops, 1, n)

\* the exception subprocess.run(..., check=True) raises on outcome res
ExcOf(res) == IF res = "nonzero" THEN "CalledProcessError" ELSE "FileNotFoundError"

\* outcomes of a command whose executable may be missing
Outcomes == {"ok", "nonzero", "notfound"}
\* outcomes of a command whose executable has already run
Reruns == {"ok", "nonzero"}
\* outcomes of a gh command on this host
GhOutcomes == IF gh_present THEN Reruns ELSE {"notfound"}

InitMain ==
    /\ entry = "main"
    /\ pc = "main"
    /\ argv \in ArgLists
    /\ cwd \in SampleFolders
    /\ gh_present \in BOOLEAN
    /\ prefix = <<>>
    /\ project_name = <<>>
    /\ use_github = TRUE
    /\ visibility = "private"

InitSetupGit ==
    /\ entry = "setup_git"
    /\ pc = "sg_username"
    /\ argv = <<>>
    /\ cwd = <<>>
    /\ gh_present \in BOOLEAN
    /\ prefix = <<>>
    /\ project_name \in {get_project_name(Acme, f) : f \in SampleFolders}
    /\ use_github \in BOOLEAN
    /\ visibility \in Visibilities

InitGetProjectName ==
    /\ entry = "get_project_name"
    /\ pc = "get_project_name"
    /\ argv = <<>>
    /\ cwd \in Folders
    /\ gh_present = FALSE
    /\ prefix \in Prefixes
    /\ project_name = <<>>
    /\ use_github = TRUE
    /\ visibility = "private"

Init ==
    /\ InitMain \/ InitSetupGit \/ InitGetProjectName
    /\ github_username = <<>>
    /\ trace = <<>>
    /\ exc = "none"
    /\ exitcode = -1

(* ------------------------------- outcomes ----------------------------- *)

\* an exception nothing catches: the traceback is printed, exit status 1
Fatal(tr, e) ==
    /\ pc' = "aborted"
    /\ exc' = e
    /\ exitcode' = IF entry = "main" THEN 1 ELSE exitcode
    /\ trace' = tr \o <<Ev("raise", e, "", "", <<>>)>>

\* a step that went through
Goto(next, tr) ==
    /\ pc' = next
    /\ trace' = tr
    /\ UNCHANGED <<exc, exitcode>>

(* -------------------------------- main -------------------------------- *)

\* main, lines 264-276: the argument check, the name, the flags
MainStart ==
    /\ pc = "main"
    /\ IF Len(argv) < 2
       THEN /\ pc' = "exited"
            /\ exitcode' = 1
            /\ trace' = trace \o <<Say("missing prefix", <<>>), Say("usage", <<>>)>>
            /\ UNCHANGED <<prefix, project_name, use_github, visibility, exc>>
       ELSE /\ prefix' = argv[2]
            /\ project_name' = get_project_name(argv[2], cwd)
            /\ use_github' = (FlagNoGithub \notin Range(argv))
            /\ visibility' = IF FlagPublic \in Range(argv) THEN "public" ELSE "private"
            /\ Goto("venv_create",
                    trace \o <<Call("get_project_name"),
                               Say("setting up project", get_project_name(argv[2], cwd))>>)
    /\ UNCHANGED <<host, github_username>>

\* a direct call of get_project_name(prefix) from the directory cwd
GetProjectNameCall ==
    /\ pc = "get_project_name"
    /\ project_name' = get_project_name(prefix, cwd)
    /\ Goto("returned", trace \o <<Call("get_project_name")>>)
    /\ UNCHANGED <<host, prefix, use_github, visibility, github_username>>

(* ---------------------- setup_virtual_environment --------------------- *)

\* a slip: check=True left out, the exit status is not looked at
VenvCreateUnchecked ==
    /\ pc = "venv_create"
    /\ \E res \in Outcomes :
         LET tr == trace \o <<Call("setup_virtual_environment"),
                              Say("creating venv", project_name),
                              Exec("python3 -m venv", "", res)>>
         IN  IF res # "notfound" THEN Goto("venv_write", tr) ELSE Fatal(tr, ExcOf(res))
    /\ UNCHANGED <<host, prefix, project_name, use_github, visibility, github_username>>

\* lines 35-38: python3 -m venv .venv
VenvCreate ==
    /\ pc = "venv_create"
    /\ \E res \in Outcomes :
         LET tr == trace \o <<Call("setup_virtual_environment"),
                              Say("creating venv", project_name),
                              Exec("python3 -m venv", "", res)>>
         IN  IF res = "ok" THEN Goto("venv_write", tr) ELSE Fatal(tr, ExcOf(res))
    /\ UNCHANGED <<host, prefix, project_name, use_github, visibility, github_username>>

RequirementsFiles ==
    <<WriteFile("requirements.txt", <<>>), WriteFile("requirements-dev.txt", <<>>)>>

\* lines 41-49: the two requirements files; n of them get written
VenvWrite ==
    /\ pc = "venv_write"
    /\ \E n \in 0..Len(RequirementsFiles) :
         LET tr == trace \o Written(RequirementsFiles, n)
         IN  IF n = Len(RequirementsFiles)
             THEN Goto("pip_upgrade", tr) ELSE Fatal(tr, "OSError")
    /\ UNCHANGED <<host, prefix, project_name, use_github, visibility, github_username>>

\* lines 52-57: pip install --upgrade pip, with the pip of the environment
\* (its path depends on os.name, the command and its outcomes do not)
PipUpgrade ==
    /\ pc = "pip_upgrade"
    /\ \E res \in Outcomes :
         LET tr == trace \o <<Exec("pip install --upgrade pip", "", res)>>
         IN  IF res = "ok" THEN Goto("pip_install", tr) ELSE Fatal(tr, ExcOf(res))
    /\ UNCHANGED <<host, prefix, project_name, use_github, visibility, github_username>>

\* lines 58-60: pip install -r requirements-dev.txt
PipInstall ==
    /\ pc = "pip_install"
    /\ \E res \in Reruns :
         LET tr == trace \o <<Exec("pip install -r", "", res)>>
         IN  IF res = "ok"
             THEN Goto("structure", tr \o <<Say("venv created", <<>>)>>)
             ELSE Fatal(tr, ExcOf(res))
    /\ UNCHANGED <<host, prefix, project_name, use_github, visibility, github_username>>

(* ---------------------- create_project_structure ---------------------- *)

\* the directories and files of lines 68-117, in the order they are made
StructureFiles(name) ==
    <<WriteFile("src/<package>", ReplaceHyphens(name)),
      WriteFile("tests", <<>>),
      WriteFile("docs", <<>>),
      WriteFile("src/<package>/__init__.py", name),
      WriteFile("src/<package>/main.py", name),
      WriteFile("tests/test_main.py", ReplaceHyphens(name)),
      WriteFile("setup.py", name),
      WriteFile("pyproject.toml", <<>>)>>

\* create_project_structure: n of its filesystem operations go through
CreateProjectStructure ==
    /\ pc = "structure"
    /\ \E n \in 0..Len(StructureFiles(project_name)) :
         LET tr == trace \o <<Call("create_project_structure"),
                              Say("creating structure", project_name)>>
                         \o Written(StructureFiles(project_name), n)
         IN  IF n = Len(StructureFiles(project_name))
             THEN Goto("sg_username", tr \o <<Say("structure created", <<>>)>>)
             ELSE Fatal(tr, "OSError")
    /\ UNCHANGED <<host, prefix, project_name, use_github, visibility, github_username>>

(* -------------------------- get_github_username ----------------------- *)

\* the except clause of line 133
CaughtUsername(e) == e = "CalledProcessError"

\* get_github_username: res and out are the outcome and the standard output
\* of gh api user --jq .login
get_github_username(res, out) ==
    IF res = "ok"
    THEN [raised |-> "none",
          value |-> IF Strip(out) # <<>> THEN Strip(out) ELSE Placeholder]
    ELSE IF CaughtUsername(ExcOf(res))
    THEN [raised |-> "none", value |-> Placeholder]
    ELSE [raised |-> ExcOf(res), value |-> <<>>]

(* ------------------------------ setup_git ----------------------------- *)

\* lines 144-146: the visibility setup_git goes on with
ValidVisibility(v) == IF v \notin {"public", "private"} THEN "private" ELSE v

\* the manual remote-setup instructions (lines 234-239, 244-249, 252-257)
Manual == Say("manual instructions", github_username)

\* setup_git returns; when main called it, main prints its last lines
\* (lines 259, 283-288) and the script ends with status 0
Return(tr) ==
    IF entry = "main"
    THEN /\ pc' = "done"
         /\ exitcode' = 0
         /\ trace' = tr \o <<Say("git initialized", <<>>),
                             Say("setup complete", project_name),
                             Say("activate venv", <<>>)>>
         /\ UNCHANGED exc
    ELSE Goto("returned", tr \o <<Say("git initialized", <<>>)>>)

\* a slip: the account is asked for whether or not use_github is set
SG_UsernameAlways ==
    /\ pc = "sg_username"
    /\ LET tr0 == trace \o <<Ev("call", "setup_git", visibility, "", project_name),
                               Say("setting up git", <<>>)>>
       IN  \E res \in GhOutcomes, out \in Stdouts :
             LET r == get_github_username(res, out)
                 tr == tr0 \o <<Ev("exec", "gh api user", "", res,
                                    IF res = "ok" THEN out ELSE <<>>)>>
             IN  IF r.raised = "none"
                 THEN github_username' = r.value /\ Goto("sg_files", tr)
                 ELSE UNCHANGED github_username /\ Fatal(tr, r.raised)
    /\ UNCHANGED <<host, prefix, project_name, use_github, visibility>>

\* lines 138-141: the account identity
SG_Username ==
    /\ pc = "sg_username"
    /\ LET tr0 == trace \o <<Ev("call", "setup_git", visibility, "", project_name),
                               Say("setting up git", <<>>)>>
       IN  IF use_github
           THEN \E res \in GhOutcomes, out \in Stdouts :
                  LET r == get_github_username(res, out)
                      tr == tr0 \o <<Ev("exec", "gh api user", "", res,
                                        IF res = "ok" THEN out ELSE <<>>)>>
                  IN  IF r.raised = "none"
                      THEN github_username' = r.value /\ Goto("sg_files", tr)
                      ELSE UNCHANGED github_username /\ Fatal(tr, r.raised)
           ELSE github_username' = Placeholder /\ Goto("sg_files", tr0)
    /\ UNCHANGED <<host, prefix, project_name, use_github, visibility>>

GitFiles == <<WriteFile(".gitignore", <<>>), WriteFile("README.md", github_username)>>

\* lines 143-205: the visibility check, then .gitignore and README.md
SG_Files ==
    /\ pc = "sg_files"
    /\ visibility' = ValidVisibility(visibility)
    /\ \E n \in 0..Len(GitFiles) :
         LET warn == IF visibility \notin {"public", "private"}
                     THEN <<Ev("print", "invalid visibility", visibility, "", <<>>)>>
                     ELSE <<>>
             tr == trace \o warn \o Written(GitFiles, n)
         IN  IF n = Len(GitFiles) THEN Goto("git_init", tr) ELSE Fatal(tr, "OSError")
    /\ UNCHANGED <<host, prefix, project_name, use_github, github_username>>

\* line 208: git init
SG_GitInit ==
    /\ pc = "git_init"
    /\ \E res \in Outcomes :
         LET tr == trace \o <<Exec("git init", "", res)>>
         IN  IF res = "ok" THEN Goto("git_add", tr) ELSE Fatal(tr, ExcOf(res))
    /\ UNCHANGED <<host, prefix, project_name, use_github, visibility, github_username>>

\* line 209: git add .
SG_GitAdd ==
    /\ pc = "git_add"
    /\ \E res \in Reruns :
         LET tr == trace \o <<Exec("git add", "", res)>>
         IN  IF res = "ok" THEN Goto("git_commit", tr) ELSE Fatal(tr, ExcOf(res))
    /\ UNCHANGED <<host, prefix, project_name, use_github, visibility, github_username>>

\* a slip: check=True left out of the commit
SG_GitCommitUnchecked ==
    /\ pc = "git_commit"
    /\ \E res \in Reruns :
         Goto("sg_remote", trace \o <<Exec("git commit", "", res)>>)
    /\ UNCHANGED <<host, prefix, project_name, use_github, visibility, github_username>>

\* line 210: git commit
SG_GitCommit ==
    /\ pc = "git_commit"
    /\ \E res \in Reruns :
         LET tr == trace \o <<Exec("git commit", "", res)>>
         IN  IF res = "ok" THEN Goto("sg_remote", tr) ELSE Fatal(tr, ExcOf(res))
    /\ UNCHANGED <<host, prefix, project_name, use_github, visibility, github_username>>

\* the except clause of line 232, around gh repo create and git push
CaughtInner(e) == e = "CalledProcessError"

\* the except clause of line 241, around the whole remote part
CaughtOuter(e) == e = "CalledProcessError"

\* a slip: the exception is not handled at all
RaiseFatal(tr, e) == Fatal(tr, e)

\* a slip: the exception is swallowed and nothing is printed
RaiseSilent(tr, e) == Return(tr)

\* an exception e raised inside the inner try block (lines 221-230)
RaiseInner(tr, e) ==
    IF CaughtInner(e)
    THEN Return(tr \o <<Say("error creating repository", <<>>), Manual>>)
    ELSE IF CaughtOuter(e)
    THEN Return(tr \o <<Say("gh not found", <<>>), Manual>>)
    ELSE Fatal(tr, e)

\* an exception e raised by gh --version (line 216)
RaiseOuter(tr, e) ==
    IF CaughtOuter(e)
    THEN Return(tr \o <<Say("gh not found", <<>>), Manual>>)
    ELSE Fatal(tr, e)

\* lines 213-218 and 250-257: the hosting CLI check, or no remote at all
SG_Remote ==
    /\ pc = "sg_remote"
    /\ IF use_github
       THEN \E res \in GhOutcomes :
              LET tr == trace \o <<Exec("gh --version", "", res)>>
              IN  IF res = "ok"
                  THEN Goto("gh_create", tr \o <<Say("creating repository", project_name)>>)
                  ELSE RaiseOuter(tr, ExcOf(res))
       ELSE Return(trace \o <<Say("skipping github", <<>>), Manual>>)
    /\ UNCHANGED <<host, prefix, project_name, use_github, visibility, github_username>>

\* lines 222-226: gh repo create <name> --<visibility>
SG_Create ==
    /\ pc = "gh_create"
    /\ \E res \in GhOutcomes :
         LET tr == trace \o <<Exec("gh repo create", visibility, res)>>
         IN  IF res = "ok"
             THEN Goto("git_push", tr \o <<Say("repository created", project_name)>>)
             ELSE RaiseInner(tr, ExcOf(res))
    /\ UNCHANGED <<host, prefix, project_name, use_github, visibility, github_username>>

\* lines 229-230: git push -u origin main
SG_Push ==
    /\ pc = "git_push"
    /\ \E res \in Reruns :
         LET tr == trace \o <<Exec("git push", "", res)>>
         IN  IF res = "ok"
             THEN Return(tr \o <<Say("pushed", <<>>)>>)
             ELSE RaiseInner(tr, ExcOf(res))
    /\ UNCHANGED <<host, prefix, project_name, use_github, visibility, github_username>>

(* ---------------------------- specification --------------------------- *)

Next ==
    \/ MainStart
    \/ GetProjectNameCall
    \/ VenvCreate
    \/ VenvWrite
    \/ PipUpgrade
    \/ PipInstall
    \/ CreateProjectStructure
    \/ SG_Username
    \/ SG_Files
    \/ SG_GitInit
    \/ SG_GitAdd
    \/ SG_GitCommit
    \/ SG_Remote
    \/ SG_Create
    \/ SG_Push

Spec == Init /\ [][Next]_vars

(* ------------------------- reading the history ------------------------ *)

Idx == DOMAIN trace
Execs(cmd) == {i \in Idx : trace[i].op = "exec" /\ trace[i].what = cmd}
ExecsWith(cmd, res) == {i \in Execs(cmd) : trace[i].res = res}
Said(msg) == {i \in Idx : trace[i].op = "print" /\ trace[i].what = msg}
Calls(f) == {i \in Idx : trace[i].op = "call" /\ trace[i].what = f}
Raised == {i \in Idx : trace[i].op = "raise"}
IsCall(e) == e.op = "call"

GhCommands == {"gh api user", "gh --version", "gh repo create"}
GhExecs == {i \in Idx : trace[i].op = "exec" /\ trace[i].what \in GhCommands}

ComponentOrder == <<"get_project_name", "setup_virtual_environment",
                    "create_project_structure", "setup_git">>

\* setup_git came back to its caller
SetupGitReturned == Said("git initialized") # {}

(* -------------------------------- claims ------------------------------ *)

\* C1: in a run of the script that is given a prefix the components are
\* entered in the order get_project_name, setup_virtual_environment,
\* create_project_structure, setup_git; a component is entered only after
\* the one before it has finished and no command before it has failed; an
\* uncaught exception is the last thing that happens, so no later component
\* is entered and the final success message is not printed.
C1_FixedOrder ==
    entry = "main" =>
      LET calls == SelectSeq(trace, IsCall) IN
      /\ Len(calls) <= Len(ComponentOrder)
      /\ \A k \in 1..Len(calls) : calls[k].what = ComponentOrder[k]
      /\ pc \notin {"main", "exited"} => Len(calls) >= 1
      /\ \A i \in Idx : trace[i].op = "call" =>
           \A j \in 1..(i - 1) :
              /\ trace[j].op # "raise"
              /\ trace[j].op = "exec" => trace[j].res = "ok"
      /\ \A i \in Calls("create_project_structure") :
           \E j \in 1..(i - 1) : trace[j] = Say("venv created", <<>>)
      /\ \A i \in Calls("setup_git") :
           \E j \in 1..(i - 1) : trace[j] = Say("structure created", <<>>)
      /\ \A i \in Raised :
           i = Len(trace) /\ pc = "aborted" /\ Said("setup complete") = {}
      /\ pc = "aborted" => Raised # {} /\ exitcode = 1
      /\ Said("setup complete") # {} => Len(calls) = Len(ComponentOrder) /\ pc = "done"
      /\ pc = "done" => Said("setup complete") # {}

\* C1 witness: a run aborted inside create_project_structure
C1_Witness ==
    /\ entry = "main"
    /\ pc = "aborted"
    /\ Calls("create_project_structure") # {}
    /\ Calls("setup_git") = {}

C5_CreateFailureDegrades ==
    ExecsWith("gh repo create", "nonzero") # {} =>
      /\ gh_present
      /\ ExecsWith("gh --version", "ok") # {}
      /\ Cardinality(Said("manual instructions")) = 1
      /\ Execs("git push") = {}
      /\ exc = "none"
      /\ Raised = {}
      /\ SetupGitReturned
      /\ entry = "main" => pc = "done" /\ exitcode = 0 /\ Said("setup complete") # {}
      /\ entry = "setup_git" => pc = "returned"

\* C5 witness: a run of the script in which the creation failed
C5_Witness ==
    /\ entry = "main"
    /\ use_github
    /\ ExecsWith("gh repo create", "nonzero") # {}

\* C6: with use_github false no gh command and no push is ever run, and
\* once init, add and commit have gone through setup_git prints the manual
\* instructions exactly once, with the placeholder identity, and returns.
C6_NoGithubNoRemote ==
    (entry # "get_project_name" /\ pc # "main" /\ ~use_github) =>
      /\ GhExecs = {}
      /\ Execs("git push") = {}
      /\ ExecsWith("git commit", "ok") # {} => pc \in {"sg_remote", "done", "returned"}
      /\ (ExecsWith("git commit", "ok") # {} /\ pc # "sg_remote") =>
           /\ Cardinality(Said("manual instructions")) = 1
           /\ \A i \in Said("manual instructions") : trace[i].text = Placeholder
           /\ SetupGitReturned
      /\ pc = "sg_remote" => Said("manual instructions") = {}

\* C6 witness: a run of the script with --no-github that got to its end
C6_Witness ==
    /\ entry = "main"
    /\ FlagNoGithub \in Range(argv)
    /\ pc = "done"
    /\ Said("manual instructions") # {}

\* C3: get_github_username is never fatal: whatever gh api user does (no
\* gh on the host, non-zero exit, exit 0 with empty output) the placeholder
\* identity is used and the run goes on; the queried login is used only
\* when the query exits 0 with output that is not empty.
C3_UsernameNeverFatal ==
    \A i \in Execs("gh api user") :
      /\ i < Len(trace) => trace[i + 1].op # "raise"
      /\ (trace[i].res # "ok" \/ Strip(trace[i].text) = <<>>)
           => github_username = Placeholder
      /\ (trace[i].res = "ok" /\ Strip(trace[i].text) # <<>>)
           => github_username = Strip(trace[i].text)

\* C4: in a run of the script with use_github true on a host without gh,
\* the absence of gh ends nothing: neither creation nor push is attempted,
\* and once the initial commit is made the manual instructions are printed,
\* setup_git returns and the run ends with the success message and exit
\* status 0.
C4_GhAbsentDegrades ==
    (entry = "main" /\ use_github /\ ~gh_present) =>
      /\ Execs("gh repo create") = {}
      /\ Execs("git push") = {}
      /\ \A i \in GhExecs : i < Len(trace) => trace[i + 1].op # "raise"
      /\ pc = "done" => Said("manual instructions") # {} /\ exitcode = 0
      /\ (ExecsWith("git commit", "ok") # {} /\ pc # "sg_remote") =>
           pc = "done" /\ Said("setup complete") # {}

\* the words after the program name are all flags
OnlyFlags(a) == \A k \in 2..Len(a) : a[k] \in {FlagNoGithub, FlagPublic}

\* C7: a command line without a positional prefix (empty, or flags only)
\* gets the usage message and exit status 1 before anything is called,
\* written or executed; on a command line with a prefix the two flags are
\* recognised wherever they stand.
C7_MissingPrefixUsage ==
    (entry = "main" /\ pc # "main") =>
      /\ OnlyFlags(argv) =>
           /\ pc = "exited"
           /\ exitcode = 1
           /\ Said("usage") # {}
           /\ \A i \in Idx : trace[i].op = "print"
      /\ ~OnlyFlags(argv) =>
           /\ use_github = (FlagNoGithub \notin Range(argv))
           /\ (visibility = "public") = (FlagPublic \in Range(argv))

\* C8: setup_git goes Uninitialized -> LocalRepoCreated -> Committed ->
\* {RemoteCreatedAndPushed | ManualInstructionsPrinted}: .gitignore and
\* README.md are written before git init, add follows a successful init and
\* commit a successful add, gh repo create is not run before the commit has
\* succeeded, a failure of init, add or commit is fatal and reaches neither
\* end state, and whenever setup_git returns exactly one of the two end
\* states holds: the remote was created and the commit pushed, or the
\* manual instructions were printed.
C8_StateMachine ==
    entry # "get_project_name" =>
      LET pushed == ExecsWith("gh repo create", "ok") # {}
                    /\ ExecsWith("git push", "ok") # {}
          manual == Said("manual instructions") # {}
      IN
      /\ \A i \in Execs("git init") :
           /\ \E j \in 1..(i - 1) : trace[j].op = "write" /\ trace[j].what = ".gitignore"
           /\ \E j \in 1..(i - 1) : trace[j].op = "write" /\ trace[j].what = "README.md"
      /\ \A i \in Execs("git add") :
           \E j \in 1..(i - 1) : trace[j] = Exec("git init", "", "ok")
      /\ \A i \in Execs("git commit") :
           \E j \in 1..(i - 1) : trace[j] = Exec("git add", "", "ok")
      /\ \A i \in Execs("gh repo create") \cup Execs("git push") \cup Said("manual instructions") :
           \E j \in 1..(i - 1) : trace[j] = Exec("git commit", "", "ok")
      /\ \A i \in Execs("git push") :
           \E j \in 1..(i - 1) : trace[j].op = "exec" /\ trace[j].what = "gh repo create"
                                 /\ trace[j].res = "ok"
      /\ \A i \in Execs("git init") \cup Execs("git add") \cup Execs("git commit") :
           trace[i].res # "ok" =>
              /\ pc = "aborted"
              /\ exc \in {"CalledProcessError", "FileNotFoundError"}
              /\ ~SetupGitReturned
              /\ ~pushed
              /\ ~manual
      /\ SetupGitReturned => (pushed \/ manual) /\ ~(pushed /\ manual)
      /\ pc \in {"done", "returned"} => SetupGitReturned

\* C8 witness: setup_git returned with the remote created and pushed
C8_Witness ==
    /\ SetupGitReturned
    /\ ExecsWith("gh repo create", "ok") # {}
    /\ ExecsWith("git push", "ok") # {}
    /\ Said("manual instructions") = {}

\* C9: a visibility handed to setup_git that is neither public nor private
\* gets a warning and is replaced by private, and setup_git goes on; gh repo
\* create is only ever run with --public or --private, and with --public
\* only if public was asked for.
C9_VisibilityCoerced ==
    \A c \in Calls("setup_git") :
      LET asked == trace[c].arg IN
      /\ pc # "sg_files" =>
           /\ visibility \in {"public", "private"}
           /\ asked \in {"public", "private"} => visibility = asked /\ Said("invalid visibility") = {}
           /\ asked \notin {"public", "private"} =>
                /\ visibility = "private"
                /\ Cardinality(Said("invalid visibility")) = 1
                /\ \A i \in Said("invalid visibility") : trace[i].arg = asked /\ i > c
      /\ \A i \in Execs("gh repo create") :
           /\ trace[i].arg \in {"public", "private"}
           /\ trace[i].arg = "public" => asked = "public"
           /\ (entry = "main" /\ trace[i].arg = "public") => FlagPublic \in Range(argv)

\* the part of project_name after the prefix and its hyphen
Rest == SubSeq(project_name, Len(prefix) + 2, Len(project_name))

\* characters the pattern [a-z0-9-] accepts
PatternChars == Range(LowerLetters) \cup Digits \cup {"-"}

\* ASCII letters, digits, hyphens, whitespace and underscores
PlainChars == Range(LowerLetters) \cup Range(UpperLetters) \cup Digits
              \cup {"-"} \cup SepClass

\* get_project_name has produced project_name from prefix and cwd
NameDerived ==
    \/ entry = "get_project_name" /\ pc = "returned"
    \/ entry = "main" /\ pc \notin {"main", "exited"}

\* C10 as stated: for a directory name that holds whitespace or underscores
\* the result is the prefix, a hyphen and a part that matches [a-z0-9-]+,
\* without two hyphens in a row unless the directory name has a hyphen.
C10_MatchesPattern ==
    (NameDerived /\ Range(cwd) \cap SepClass # {}) =>
      /\ Len(project_name) >= Len(prefix) + 1
      /\ SubSeq(project_name, 1, Len(prefix) + 1) = prefix \o <<"-">>
      /\ Rest # <<>>
      /\ Range(Rest) \subseteq PatternChars
      /\ "-" \notin Range(cwd) =>
           \A i \in 1..(Len(Rest) - 1) : ~(Rest[i] = "-" /\ Rest[i + 1] = "-")

\* C10 amended: the result is the prefix, a hyphen, then the directory name
\* with every character lowercased and every maximal run of whitespace and
\* underscores replaced by one hyphen, any other character kept as it is;
\* a directory name without hyphens gives no two hyphens in a row; the part after
\* the prefix matches [a-z0-9-]+ whenever the directory name is not empty
\* and holds only ASCII letters, digits, hyphens, whitespace and
\* underscores.
C10_Derived ==
    NameDerived =>
      LET \* the positions of cwd that give a character of the result: every
          \* position outside a run, and the first position of every run
          keep == {i \in 1..Len(cwd) :
                     cwd[i] \notin SepClass \/ i = 1 \/ cwd[i - 1] \notin SepClass}
          place(i) == Cardinality({j \in keep : j <= i})
      IN
      /\ Len(project_name) = Len(prefix) + 1 + Cardinality(keep)
      /\ SubSeq(project_name, 1, Len(prefix) + 1) = prefix \o <<"-">>
      /\ \A i \in keep :
           Rest[place(i)] = IF cwd[i] \in SepClass THEN "-" ELSE LowerChar(cwd[i])
      /\ "-" \notin Range(cwd) =>
           \A i \in 1..(Len(Rest) - 1) : ~(Rest[i] = "-" /\ Rest[i + 1] = "-")
      /\ (cwd # <<>> /\ Range(cwd) \subseteq PlainChars) =>
           Rest # <<>> /\ Range(Rest) \subseteq PatternChars
      /\ (prefix = Acme /\ cwd = <<"M","y"," ","P","r","o","j","e","c","t">>) =>
           project_name = <<"a","c","m","e","-","m","y","-","p","r","o","j","e","c","t">>
      /\ (prefix = <<"x">>
          /\ cwd = <<"a","l","r","e","a","d","y","-","h","y","p","h","e","n","a","t","e","d">>) =>
           project_name = <<"x","-","a","l","r","e","a","d","y","-",
                            "h","y","p","h","e","n","a","t","e","d">>

\* C10 witness: a name derived from a directory name with a run of two
\* whitespace or underscore characters and an uppercase letter
C10_Witness ==
    /\ entry = "get_project_name"
    /\ pc = "returned"
    /\ prefix = Acme
    /\ \E i \in 1..(Len(cwd) - 1) : cwd[i] \in SepClass /\ cwd[i + 1] \in SepClass
    /\ "B" \in Range(cwd)

====
